---- MODULE Spec2Model ----
(***************************************************************************)
(* Conversational assistant pipeline of the Employee Timesheet Tracker:    *)
(* the /chat route of src/routes/chatbot.js (response cache lookup,        *)
(* request de-duplication, completion backend calls, TOOL_CALL and         *)
(* ACTION_COMMAND directive handling, cache write), its tool dispatcher    *)
(* executeTool, and the browser-side action executor.                      *)
(* utils/cache-manager is required by the route but is                     *)
(* not among the source files; it is modelled from the specification.      *)
(*                                                                         *)
(* A completion text is a sequence of tokens.  The tokens are the two      *)
(* directive markers, the braces, whitespace ("sp"), prose ("txt") and     *)
(* JSON members: "k=v" stands for the member  "k": "v"  and "params="      *)
(* for the key  "params":  whose value is the object that follows.         *)
(***************************************************************************)
EXTENDS Integers, Sequences, FiniteSets, TLC

\* ------------------------------------------------------------------ bounds
MaxReq == 2
MaxTurns == 1
MaxExec == 3
MaxTime == 2
MaxCalls == 2
MaxSends == 3
MaxDrops == 2
MaxClock == 4
MaxDayOfMonth == 3
MaxSubmitted == 2

\* ------------------------------------------------- cache-manager constants
ResponseTTL == 1

Requests == 1..MaxReq
TurnRequests == { r \in Requests : r <= MaxTurns }
Users == {"u1", "u2", "u3"}
Roles == {"employee", "admin"}
\* req.user.role, as the auth middleware supplies it for the user
RoleOf(u) == IF u = "u3" THEN "admin" ELSE "employee"
\* a body without a message, or with one that is not a string
NonStrings == { "<undefined>", "<number>" }
Messages == { "Hi", "hi", "" } \cup NonStrings
CoreMessages == { "hi", "", "<number>" }

\* the history a client may send with its message: none, or more earlier
\* messages than a backend call takes along
NoHistory == << >>
LongHistory == [i \in 1..11 |-> IF i % 2 = 1 THEN "q" ELSE "a"]
Histories == { NoHistory, LongHistory }

Undefined == "undefined"

\* ----------------------------------------------------------- text helpers
TOOL_MARK == "TOOL_CALL:"
ACTION_MARK == "ACTION_COMMAND:"

ScalarMembers ==
    { "tool=getLoggedHours", "period=week",
      "action=navigate", "target=employee-dashboard", "target=timesheets-page",
      "target=secret-admin-panel" }

MemberKey(tok) ==
    CASE tok = "tool=getLoggedHours" -> "tool"
      [] tok = "period=week" -> "period"
      [] tok = "action=navigate" -> "action"
      [] tok \in {"target=employee-dashboard", "target=timesheets-page",
                  "target=secret-admin-panel"} -> "target"
      [] OTHER -> Undefined

MemberValue(tok) ==
    CASE tok = "tool=getLoggedHours" -> "getLoggedHours"
      [] tok = "period=week" -> "week"
      [] tok = "action=navigate" -> "navigate"
      [] tok = "target=employee-dashboard" -> "employee-dashboard"
      [] tok = "target=timesheets-page" -> "timesheets-page"
      [] tok = "target=secret-admin-panel" -> "secret-admin-panel"
      [] OTHER -> Undefined

\* String.prototype.includes(marker)
Includes(s, mark) == \E i \in 1..Len(s) : s[i] = mark

\* index of the first token at or after i that is not whitespace (\s*)
RECURSIVE SkipSpace(_, _)
SkipSpace(s, i) ==
    IF i <= Len(s) /\ s[i] = "sp" THEN SkipSpace(s, i + 1) ELSE i

\* index of the first "}" at or after i, 0 when there is none
RECURSIVE FirstClose(_, _)
FirstClose(s, i) ==
    IF i > Len(s) THEN 0
    ELSE IF s[i] = "}" THEN i
    ELSE FirstClose(s, i + 1)

\* /MARK:\s*(\{[^}]+\})/ anchored at i: the index of the closing brace of
\* the match, 0 when the pattern does not match at i
MatchEndAt(s, mark, i) ==
    IF i > Len(s) \/ s[i] # mark THEN 0
    ELSE LET k == SkipSpace(s, i + 1)
         IN  IF k > Len(s) \/ s[k] # "{" THEN 0
             ELSE LET e == FirstClose(s, k + 1)
                  IN  IF e > k + 1 THEN e ELSE 0

\* String.prototype.match: the leftmost position where the pattern matches
RECURSIVE MatchStart(_, _, _)
MatchStart(s, mark, i) ==
    IF i > Len(s) THEN 0
    ELSE IF MatchEndAt(s, mark, i) # 0 THEN i
    ELSE MatchStart(s, mark, i + 1)

HasMatch(s, mark) == MatchStart(s, mark, 1) # 0

\* capture group 1 of the leftmost match: the braces and what is between
MatchPayload(s, mark) ==
    LET i == MatchStart(s, mark, 1)
        k == SkipSpace(s, i + 1)
        e == MatchEndAt(s, mark, i)
    IN  SubSeq(s, k, e)

\* JSON.parse of an object: ObjEnd(s, i) is the index of the brace closing
\* the object that opens at i, 0 when the text from i is not an object
RECURSIVE ObjEnd(_, _), MembersEnd(_, _)
ObjEnd(s, i) ==
    IF i > Len(s) \/ s[i] # "{" THEN 0 ELSE MembersEnd(s, i + 1)

MembersEnd(s, j) ==
    IF j > Len(s) THEN 0
    ELSE IF s[j] = "}" THEN j
    ELSE IF s[j] = "sp" \/ s[j] \in ScalarMembers THEN MembersEnd(s, j + 1)
    ELSE IF s[j] = "params="
         THEN LET e == ObjEnd(s, SkipSpace(s, j + 1))
              IN  IF e = 0 THEN 0 ELSE MembersEnd(s, e + 1)
    ELSE 0

\* JSON.parse(payload) returns (TRUE) or throws SyntaxError (FALSE)
JsonParses(p) == Len(p) > 0 /\ ObjEnd(p, 1) = Len(p)

\* the value of top-level key k of a parsed object (the last member wins)
RECURSIVE TopValue(_, _, _, _)
TopValue(p, k, j, acc) ==
    IF j >= Len(p) THEN acc
    ELSE IF p[j] = "params=" THEN TopValue(p, k, ObjEnd(p, SkipSpace(p, j + 1)) + 1, acc)
    ELSE IF MemberKey(p[j]) = k THEN TopValue(p, k, j + 1, MemberValue(p[j]))
    ELSE TopValue(p, k, j + 1, acc)

JsonField(p, k) == TopValue(p, k, 2, Undefined)

\* toolCall.params || {} : the members of the nested params object
RECURSIVE ParamsOf(_, _)
ParamsOf(p, j) ==
    IF j >= Len(p) THEN {}
    ELSE IF p[j] = "params="
         THEN LET b == SkipSpace(p, j + 1)
                  e == ObjEnd(p, b)
              IN  { p[x] : x \in { y \in (b + 1)..(e - 1) : p[y] \in ScalarMembers } }
    ELSE ParamsOf(p, j + 1)

JsonParams(p) == ParamsOf(p, 2)

\* String.prototype.trim
RECURSIVE TrimLeft(_), TrimRight(_)
TrimLeft(s) == IF Len(s) > 0 /\ s[1] = "sp" THEN TrimLeft(Tail(s)) ELSE s
TrimRight(s) ==
    IF Len(s) > 0 /\ s[Len(s)] = "sp" THEN TrimRight(SubSeq(s, 1, Len(s) - 1)) ELSE s
Trim(s) == TrimLeft(TrimRight(s))

\* aiResponse.replace(/MARK:\s*\{[^}]+\}\s*/g, ''): every match, left to
\* right, is removed together with the whitespace that follows it
RECURSIVE RemoveAll(_, _, _)
RemoveAll(s, mark, i) ==
    IF i > Len(s) THEN << >>
    ELSE LET e == MatchEndAt(s, mark, i)
         IN  IF e # 0 THEN RemoveAll(s, mark, SkipSpace(s, e + 1))
             ELSE << s[i] >> \o RemoveAll(s, mark, i + 1)


\* --------------------------------------------------- completion backend
\* error.message of the exception a body of another shape raises
BadBodyText == "TypeError: Cannot read properties of undefined (reading '0')"
ToolErrorText == << "txt_tool_error" >>
NoSummaryText == << "txt_no_summary" >>

DocToolCall ==
    << TOOL_MARK, "sp", "{", "tool=getLoggedHours", "params=", "{", "period=week", "}", "}" >>
DocToolCallNoParams ==
    << TOOL_MARK, "sp", "{", "tool=getLoggedHours", "params=", "{", "}", "}" >>
FlatToolCall == << TOOL_MARK, "sp", "{", "tool=getLoggedHours", "}" >>
JunkToolCall == << TOOL_MARK, "sp", "{", "junk", "}", "sp", "txt" >>
NavDashboard ==
    << ACTION_MARK, "sp", "{", "action=navigate", "target=employee-dashboard", "}", "sp", "txt2" >>
NavTimesheets ==
    << ACTION_MARK, "sp", "{", "action=navigate", "target=timesheets-page", "}", "sp", "txt" >>
NavSecret ==
    << ACTION_MARK, "sp", "{", "action=navigate", "target=secret-admin-panel", "}", "sp", "txt" >>
JunkThenNav ==
    << ACTION_MARK, "{", "junk", "}", "sp",
       ACTION_MARK, "{", "action=navigate", "target=employee-dashboard", "}" >>
TwoToolCalls == FlatToolCall \o << "sp" >> \o FlatToolCall
JunkThenTool == << TOOL_MARK, "{", "junk", "}", "sp" >> \o FlatToolCall

\* what the backend may answer to the initial call / the summarization call
Completions ==
    { << "txt" >>, DocToolCall, DocToolCallNoParams, FlatToolCall, JunkToolCall,
      NavDashboard, NavSecret, JunkThenNav }
Summaries == { << "txt" >>, << >>, NavDashboard }
HttpOutcomes == { "ok", "non2xx", "badbody" }
\* the answers that tell the computations of the concurrent pipeline apart
CoreCompletions == { NavTimesheets, FlatToolCall }
CoreSummaries == { << "txt2" >> }
CoreHttp == { "ok", "non2xx" }
CoreToolOutcomes == { "ok" }
ToolOutcomes == { "ok", "error", "throw" }

\* ------------------------------------------------- ACTION_REGISTRY (executor)
NavigateTargets ==
    { "employee-dashboard", "manager-dashboard", "admin-dashboard", "timesheets-page",
      "tasks-page", "attendance-page", "profile-page", "home" }
ClickElements ==
    { "#addTimesheetBtn", "#checkInBtn", "#checkOutBtn", "#submitTimesheetBtn",
      "#addTaskBtn", "#viewReportsBtn" }
ScrollTargets ==
    { "timesheets-section", "tasks-section", "attendance-section", "reports-section",
      "profile-section" }
ModalNames == { "add-timesheet", "edit-timesheet", "add-task" }
ActionKinds == { "navigate", "click", "scroll", "open_modal" }

\* what SYSTEM_PROMPT tells the completion backend it may use: the lists of
\* available nav targets, click elements and modals, and the scroll target
\* of its example
Advertised(kind) ==
    CASE kind = "navigate" ->
             { "employee-dashboard", "manager-dashboard", "admin-dashboard",
               "timesheets-page", "tasks-page", "attendance-page", "profile-page" }
      [] kind = "click" ->
             { "#addTimesheetBtn", "#checkInBtn", "#checkOutBtn", "#submitTimesheetBtn" }
      [] kind = "scroll" -> { "timesheets-section" }
      [] kind = "open_modal" ->
             { "add-timesheet", "edit-timesheet", "add-task", "view-details" }
      [] OTHER -> {}

\* the enumerated keys of ACTION_REGISTRY[kind]
OwnKeys(kind) ==
    CASE kind = "navigate" -> NavigateTargets
      [] kind = "click" -> ClickElements
      [] kind = "scroll" -> ScrollTargets
      [] kind = "open_modal" -> ModalNames
      [] OTHER -> {}

\* ------------------------------------------------------------ data shapes
NullAction == [action |-> "null", target |-> Undefined]
\* a body written without an action field: reading it gives undefined
AbsentAction == [action |-> Undefined, target |-> Undefined]
NoBody ==
    [response |-> << >>, model |-> "none", cached |-> FALSE, action |-> NullAction,
     error |-> "none", message |-> "none"]
NoData == [response |-> << >>, model |-> "none", userId |-> "none", action |-> NullAction]

NewRequest ==
    [pc |-> "new", user |-> "none", role |-> "none", message |-> "none",
     producer |-> 0, calls |-> 0, first |-> << >>, ai |-> << >>,
     tool |-> "none", params |-> {}, toolRes |-> "none", sumFail |-> FALSE,
     status |-> 0, body |-> NoBody, servedFor |-> "none", writer |-> 0,
     entryExp |-> 0, cleared |-> FALSE, history |-> << >>, sent |-> << >>]

\* a send of the chat widget: where its sendMessage call stands, the message
\* and the history it posted, the token it read and the status it was answered
Sends == 1..MaxSends
NewSend ==
    [pc |-> "new", message |-> << >>, history |-> << >>, token |-> FALSE, status |-> 0]

\* Date.now() when the page is loaded, in ms: far more than DEBOUNCE_DELAY
\* after the epoch lastSendTime starts at
StartTime == 1500
\* the ms between two readings of the clock
ClockStep == 150
DEBOUNCE_DELAY == 300

\* the widget as createChatbotUI leaves it; dropped and dropWhy count the
\* sendMessage calls that returned early and tell why the last one did
NewWidget ==
    [chatHistory |-> << >>, isTyping |-> FALSE, lastSendTime |-> 0,
     disabled |-> FALSE, indicators |-> 0, welcome |-> TRUE, messages |-> << >>,
     clock |-> StartTime, dropped |-> 0, dropWhy |-> "none", send |-> [w \in Sends |-> NewSend]]

\* no getManagerMissingTimesheets call made yet
NoReport ==
    [kind |-> "none", period |-> "none", today |-> 0, late |-> 0, dayOfMonth |-> 0,
     submittedDays |-> 0, expectedDays |-> 0, missingDays |-> 0, listed |-> FALSE]

\* an executeTool call: its arguments, what it returned, whether the cache
\* answered it, whether the tool function was invoked and whether that
\* function read the database; for a result that is cached, the expiry of
\* its entry and whether the caches were cleared since
Calls == 1..MaxCalls
NoResult == [kind |-> "none", by |-> 0]
NewCall ==
    [pc |-> "new", tool |-> "none", user |-> "none", role |-> "none", params |-> {},
     result |-> NoResult, hit |-> FALSE, invoked |-> FALSE, queried |-> FALSE,
     entryExp |-> 0, cleared |-> FALSE]

\* result.error is set
ErrorShaped(result) == result.kind \in { "error", "unknown" }

VARIABLES
    now,            \* the clock the cache TTLs are measured against
    responseCache,  \* Conversation Response Cache: a set of entries
    inFlight,       \* the deduplicator's table: a set of [key, producer]
    req,            \* one record per chat request
    lastOutcome,    \* history: how the last computation of each key settled
    execCalls,      \* executor: number of executeChatbotAction calls made
    execLast,       \* executor: the last actionData and what the call returned
    timers,         \* executor: the setTimeout callbacks not yet run
    ui,             \* executor: the UI effects performed so far
    toolCache,      \* Tool Result Cache: a set of entries
    call,           \* one record per executeTool call
    clearRes,       \* what /cache/clear answered last, and to whom
    widget,         \* the chat widget of the page: its variables and its sends
    report          \* the last getManagerMissingTimesheets call and its result

serverVars == << now, responseCache, inFlight, req, lastOutcome >>
execVars == << execCalls, execLast, timers, ui >>
toolVars == << toolCache, call >>
vars ==
    << now, responseCache, inFlight, req, lastOutcome, execCalls, execLast, timers, ui,
       toolCache, call, clearRes, widget, report >>

\* ------------------------------------------------------- cache-manager
\* case normalisation of the message text
Normalize(m) == IF m = "Hi" THEN "hi" ELSE m

generateCacheKey(userId, message, role) == << userId, Normalize(message), role >>

Keys == { generateCacheKey(u, m, RoleOf(u)) : u \in Users, m \in { "Hi", "hi" } }

\* Cache Store get: the live entries of a key (a read after expiresAt is a miss)
LiveEntries(cache, key, t) == { e \in cache : e.key = key /\ t <= e.expiresAt }
\* ... and the stale entry is evicted
AfterGet(cache, key, t) == { e \in cache : ~(e.key = key /\ t > e.expiresAt) }

getCachedResponse(cache, userId, message, role, t) ==
    LiveEntries(cache, generateCacheKey(userId, message, role), t)

setCachedResponse(cache, userId, message, data, role, t, by, bad) ==
    LET key == generateCacheKey(userId, message, role)
    IN  { e \in cache : e.key # key }
          \cup { [key |-> key, value |-> data, expiresAt |-> t + ResponseTTL,
                  writer |-> by, degraded |-> bad] }


\* deduplicateRequest: the in-flight computation of a key, if any ...
InFlightFor(table, key) == { f \in table : f.key = key }
\* ... else the caller's producer becomes it, registered in the same step ...
Registered(table, key, p) == table \cup { [key |-> key, producer |-> p] }
\* ... and leaves the table the moment it settles, by result or by exception
Released(table, p) == { f \in table : f.producer # p }

\* ------------------------------------------------------ router.post('/chat')
TypeOK ==
    /\ now \in 0..MaxTime
    /\ \A e \in responseCache : e.key \in Keys /\ e.writer \in Requests
    /\ \A f \in inFlight : f.key \in Keys /\ f.producer \in Requests
    /\ \A r \in Requests : req[r].pc \in {"new", "fetch1", "tool", "fetch2", "waiting", "done"}
    /\ lastOutcome \in [Keys -> {"none", "ok", "fail"}]

Init ==
    /\ now = 0
    /\ responseCache = {}
    /\ inFlight = {}
    /\ req = [r \in Requests |-> NewRequest]
    /\ lastOutcome = [k \in Keys |-> "none"]
    /\ execCalls = 0
    /\ execLast = [action |-> "none", arg |-> "none", result |-> "none"]
    /\ timers = {}
    /\ ui = {}
    /\ toolCache = {}
    /\ call = [c \in Calls |-> NewCall]
    /\ clearRes = [by |-> "none", status |-> 0]
    /\ widget = NewWidget
    /\ report = NoReport

\* a mutant of ValidMessage: only a missing message is refused
ValidMessagePresent(m) == m # "<undefined>"

\* !message || typeof message !== 'string'
ValidMessage(m) == m # "" /\ m \notin NonStrings

\* a mutant of KeyOptions: the options tell an empty history from another
KeyOptionsWithHistory(userRole, history) ==
    IF history = << >> THEN userRole ELSE "manager"

\* the options the handler hands to the cache manager with the user and the
\* message, for the lookup and for the key: { role: userRole }
KeyOptions(userRole, history) == userRole

\* Array.prototype.slice(-n): the last n elements
Slice(history, n) ==
    IF Len(history) <= n THEN history
    ELSE SubSeq(history, Len(history) - n + 1, Len(history))

\* a mutant of requestKey: the key carries the time of the request
requestKeyTimed(userId, message, role) == << userId, Normalize(message), role, now >>

\* the key the handler hands to deduplicateRequest
requestKey(userId, message, role) == generateCacheKey(userId, message, role)

\* a mutant of CachedResponseFor: the lookup leaves the user out of the key
CachedResponseForAnyUser(userId, message, role) ==
    { e \in responseCache :
        e.key[2] = Normalize(message) /\ e.key[3] = role /\ now <= e.expiresAt }

\* a mutant of CachedResponseFor: the lookup returns the entry whatever its age
CachedResponseForStale(userId, message, role) ==
    { e \in responseCache : e.key = generateCacheKey(userId, message, role) }

\* the handler's cache lookup for the request
CachedResponseFor(userId, message, role) ==
    getCachedResponse(responseCache, userId, message, role, now)

Processing(r) == req[r].pc \in {"fetch1", "tool", "fetch2"}
KeyOf(r) == generateCacheKey(req[r].user, req[r].message, req[r].role)

\* the directive kept by the action parsing of the turn: the parsed object
\* when the leftmost match parses, null otherwise
ParsedAction(ai) ==
    IF Includes(ai, ACTION_MARK) /\ HasMatch(ai, ACTION_MARK)
       /\ JsonParses(MatchPayload(ai, ACTION_MARK))
    THEN [action |-> JsonField(MatchPayload(ai, ACTION_MARK), "action"),
          target |-> JsonField(MatchPayload(ai, ACTION_MARK), "target")]
    ELSE NullAction

\* the text left by the action parsing: every match removed, then trimmed,
\* when the leftmost match parses; untouched otherwise
TextAfterAction(ai) ==
    IF Includes(ai, ACTION_MARK) /\ HasMatch(ai, ACTION_MARK)
       /\ JsonParses(MatchPayload(ai, ACTION_MARK))
    THEN Trim(RemoveAll(ai, ACTION_MARK, 1))
    ELSE ai

responseData(userId, ai) ==
    [response |-> TextAfterAction(ai), model |-> "llama-3.1-8b-instant",
     userId |-> userId, action |-> ParsedAction(ai)]

\* a request arrives: validation, cache lookup, then deduplicateRequest,
\* which attaches to the in-flight computation of the key or starts
\* processRequest, which runs up to its first backend call
ChatRequest(r, u, m, h) ==
    /\ UNCHANGED << execVars, toolVars, clearRes, widget, report >>
    /\ req[r].pc = "new"
    /\ IF r = 1 THEN TRUE ELSE req[r - 1].pc # "new"
    /\ LET ro == RoleOf(u)
           arrived == [req[r] EXCEPT !.user = u, !.role = ro, !.message = m,
                                     !.history = h]
           opt == KeyOptions(ro, h)
           hit == CachedResponseFor(u, m, opt)
           key == requestKey(u, m, opt)
           attached == InFlightFor(inFlight, key)
       IN  IF ~ValidMessage(m)
           THEN /\ req' = [req EXCEPT ![r] = [arrived EXCEPT !.pc = "done", !.status = 400,
                                  !.body = [NoBody EXCEPT !.error = "Message is required"]]]
                /\ UNCHANGED << responseCache, inFlight >>
           ELSE IF hit # {}
           THEN LET e == CHOOSE x \in hit : TRUE
                IN  /\ req' = [req EXCEPT ![r] = [arrived EXCEPT !.pc = "done", !.status = 200,
                                  !.body = [response |-> e.value.response,
                                            model |-> e.value.model, cached |-> TRUE,
                                            action |-> AbsentAction, error |-> "none",
                                            message |-> "none"],
                                  !.servedFor = e.value.userId, !.writer = e.writer,
                                  !.entryExp = e.expiresAt]]
                    /\ responseCache' = AfterGet(responseCache, generateCacheKey(u, m, opt), now)
                    /\ UNCHANGED inFlight
           ELSE /\ responseCache' = AfterGet(responseCache, generateCacheKey(u, m, opt), now)
                /\ IF attached # {}
                   THEN /\ req' = [req EXCEPT ![r] = [arrived EXCEPT !.pc = "waiting",
                                     !.producer = (CHOOSE f \in attached : TRUE).producer]]
                        /\ UNCHANGED inFlight
                   ELSE /\ req' = [req EXCEPT ![r] = [arrived EXCEPT !.pc = "fetch1",
                                     !.producer = r, !.calls = 1,
                                     !.sent = Slice(h, 10)]]
                        /\ inFlight' = Registered(inFlight, key, r)
    /\ UNCHANGED << now, lastOutcome >>

\* a mutant of SettledOk: a caller that made no backend call is told cached
SettledOkWaitersCached(rq, p, data) ==
    [q \in Requests |->
        IF rq[q].producer = p /\ rq[q].pc # "done"
        THEN [rq[q] EXCEPT !.pc = "done", !.status = 200,
                 !.body = [response |-> data.response, model |-> data.model,
                           cached |-> (q # p), action |-> data.action, error |-> "none",
                           message |-> "none"],
                 !.servedFor = data.userId, !.writer = p,
                 !.entryExp = now + ResponseTTL]
        ELSE rq[q]]

\* the in-flight computation of producer p settles with a result: the entry
\* leaves the table and every caller awaiting it answers 200
SettledOk(rq, p, data) ==
    [q \in Requests |->
        IF rq[q].producer = p /\ rq[q].pc # "done"
        THEN [rq[q] EXCEPT !.pc = "done", !.status = 200,
                 !.body = [response |-> data.response, model |-> data.model,
                           cached |-> FALSE, action |-> data.action, error |-> "none",
                           message |-> "none"],
                 !.servedFor = data.userId, !.writer = p,
                 !.entryExp = now + ResponseTTL]
        ELSE rq[q]]

\* a mutant of SettledFailed: only the producer's own caller sees the failure
SettledFailedProducerOnly(rq, p, msg) ==
    [q \in Requests |->
        IF q = p
        THEN [rq[q] EXCEPT !.pc = "done", !.status = 500,
                 !.body = [NoBody EXCEPT !.error = "Failed to process your request",
                                         !.message = msg]]
        ELSE rq[q]]

\* ... or with an exception: every caller awaiting it answers 500
SettledFailed(rq, p, msg) ==
    [q \in Requests |->
        IF rq[q].producer = p /\ rq[q].pc # "done"
        THEN [rq[q] EXCEPT !.pc = "done", !.status = 500,
                 !.body = [NoBody EXCEPT !.error = "Failed to process your request",
                                         !.message = msg]]
        ELSE rq[q]]

\* a mutant of Finish: the response is returned without being cached
FinishNoCache(rq, p, ai) ==
    /\ inFlight' = Released(inFlight, p)
    /\ req' = SettledOk([rq EXCEPT ![p].ai = ai], p, responseData(rq[p].user, ai))
    /\ lastOutcome' = [lastOutcome EXCEPT ![KeyOf(p)] = "ok"]
    /\ UNCHANGED responseCache

\* the tail of processRequest: action parsing, cache write, return
Finish(rq, p, ai) ==
    LET data == responseData(rq[p].user, ai)
        bad == rq[p].toolRes \in {"error", "throw"} \/ rq[p].sumFail
    IN  /\ responseCache' = setCachedResponse(responseCache, rq[p].user, rq[p].message,
                                              data, rq[p].role, now, p, bad)
        /\ inFlight' = Released(inFlight, p)
        /\ req' = SettledOk([rq EXCEPT ![p].ai = ai], p, data)
        /\ lastOutcome' = [lastOutcome EXCEPT ![KeyOf(p)] = "ok"]

\* a mutant of Throw: the failure is cached as the reply of the turn
ThrowCached(p, msg) ==
    /\ inFlight' = Released(inFlight, p)
    /\ req' = SettledFailed(req, p, msg)
    /\ lastOutcome' = [lastOutcome EXCEPT ![KeyOf(p)] = "fail"]
    /\ responseCache' = setCachedResponse(responseCache, req[p].user, req[p].message,
                             responseData(req[p].user, << "txt_apology" >>),
                             req[p].role, now, p, TRUE)

\* a mutant of Throw: the failed computation stays in the in-flight table
ThrowKeepsEntry(p, msg) ==
    /\ UNCHANGED inFlight
    /\ req' = SettledFailed(req, p, msg)
    /\ lastOutcome' = [lastOutcome EXCEPT ![KeyOf(p)] = "fail"]
    /\ UNCHANGED responseCache

\* processRequest throws: nothing is cached, the handler's catch answers
Throw(p, msg) ==
    /\ inFlight' = Released(inFlight, p)
    /\ req' = SettledFailed(req, p, msg)
    /\ lastOutcome' = [lastOutcome EXCEPT ![KeyOf(p)] = "fail"]
    /\ UNCHANGED responseCache

\* the initial backend call answers
Fetch1Response(p, http, content) ==
    /\ UNCHANGED << execVars, toolVars, clearRes, widget, report >>
    /\ req[p].pc = "fetch1"
    /\ IF http = "non2xx" THEN Throw(p, "Failed to get response from AI")
       ELSE IF http = "badbody" THEN Throw(p, BadBodyText)
       ELSE LET rq == [req EXCEPT ![p].first = content]
            IN  IF Includes(content, TOOL_MARK) /\ HasMatch(content, TOOL_MARK)
                THEN IF JsonParses(MatchPayload(content, TOOL_MARK))
                     THEN /\ req' = [rq EXCEPT ![p].pc = "tool", ![p].ai = content,
                                        ![p].tool = JsonField(MatchPayload(content, TOOL_MARK), "tool"),
                                        ![p].params = JsonParams(MatchPayload(content, TOOL_MARK))]
                          /\ UNCHANGED << responseCache, inFlight, lastOutcome >>
                     ELSE Finish(rq, p, ToolErrorText)
                ELSE Finish(rq, p, content)
    /\ UNCHANGED now

\* executeTool returns or throws; on a result the summarization call is issued
ToolReturn(p, res) ==
    /\ UNCHANGED << execVars, toolVars, clearRes, widget, report >>
    /\ req[p].pc = "tool"
    /\ IF res = "throw"
       THEN Finish([req EXCEPT ![p].toolRes = res], p, ToolErrorText)
       ELSE /\ req' = [req EXCEPT ![p].pc = "fetch2", ![p].toolRes = res, ![p].calls = 2]
            /\ UNCHANGED << responseCache, inFlight, lastOutcome >>
    /\ UNCHANGED now

\* a mutant of Fetch2Response: a tool directive in the summary is dispatched
Fetch2ResponseRedispatch(p, http, content) ==
    /\ UNCHANGED << execVars, toolVars, clearRes, widget, report >>
    /\ req[p].pc = "fetch2"
    /\ IF http = "ok"
       THEN IF HasMatch(content, TOOL_MARK) /\ JsonParses(MatchPayload(content, TOOL_MARK))
            THEN /\ req' = [req EXCEPT ![p].pc = "tool", ![p].ai = content]
                 /\ UNCHANGED << responseCache, inFlight, lastOutcome >>
            ELSE Finish(req, p, IF content = << >> THEN NoSummaryText ELSE content)
       ELSE IF http = "non2xx"
       THEN Finish([req EXCEPT ![p].sumFail = TRUE], p, req[p].ai)
       ELSE Finish(req, p, ToolErrorText)
    /\ UNCHANGED now

\* the summarization call answers
Fetch2Response(p, http, content) ==
    /\ UNCHANGED << execVars, toolVars, clearRes, widget, report >>
    /\ req[p].pc = "fetch2"
    /\ IF http = "ok"
       THEN Finish(req, p, IF content = << >> THEN NoSummaryText ELSE content)
       ELSE IF http = "non2xx"
       THEN Finish([req EXCEPT ![p].sumFail = TRUE], p, req[p].ai)
       ELSE Finish(req, p, ToolErrorText)
    /\ UNCHANGED now

\* the users /cache/clear is not refused to
Admins == { u \in Users : RoleOf(u) = "admin" }

\* a mutant of CacheClear: the caches are cleared for whoever asks
CacheClearAnyone(u) ==
    /\ UNCHANGED << execVars, widget, report >>
    /\ clearRes' = [by |-> u, status |-> 200]
    /\ responseCache' = {}
    /\ req' = [q \in Requests |->
                 IF req[q].pc = "done" THEN [req[q] EXCEPT !.cleared = TRUE] ELSE req[q]]
    /\ toolCache' = {}
    /\ call' = [c \in Calls |->
                  IF call[c].pc = "done" /\ ~ErrorShaped(call[c].result)
                  THEN [call[c] EXCEPT !.cleared = TRUE]
                  ELSE call[c]]
    /\ responseCache # {} \/ toolCache # {}
    /\ UNCHANGED << now, inFlight, lastOutcome >>

\* router.post('/cache/clear')
CacheClear(u) ==
    /\ UNCHANGED << execVars, widget, report >>
    /\ IF RoleOf(u) # "admin"
       THEN /\ clearRes' = [by |-> u, status |-> 403]
            /\ UNCHANGED << responseCache, req, toolVars >>
       ELSE /\ clearRes' = [by |-> u, status |-> 200]
            /\ responseCache' = {}
            /\ req' = [q \in Requests |->
                         IF req[q].pc = "done" THEN [req[q] EXCEPT !.cleared = TRUE] ELSE req[q]]
            /\ toolCache' = {}
            /\ call' = [c \in Calls |->
                          IF call[c].pc = "done" /\ ~ErrorShaped(call[c].result)
                          THEN [call[c] EXCEPT !.cleared = TRUE]
                          ELSE call[c]]
    /\ responseCache # {} \/ toolCache # {}
    /\ UNCHANGED << now, inFlight, lastOutcome >>

Tick ==
    /\ UNCHANGED << execVars, toolVars, clearRes, widget, report >>
    /\ now < MaxTime
    /\ now' = now + 1
    /\ UNCHANGED << responseCache, inFlight, req, lastOutcome >>

Next ==
    \/ \E r \in Requests, u \in Users, m \in CoreMessages : ChatRequest(r, u, m, NoHistory)
    \/ \E p \in Requests, h \in CoreHttp, c \in CoreCompletions : Fetch1Response(p, h, c)
    \/ \E p \in Requests, t \in CoreToolOutcomes : ToolReturn(p, t)
    \/ \E p \in Requests, h \in CoreHttp, c \in CoreSummaries : Fetch2Response(p, h, c)
    \/ \E u \in Admins : CacheClear(u)
    \/ Tick

Spec == Init /\ [][Next]_vars


\* The turn in detail: every answer the backend and the tools can give, one
\* turn after the other.
Quiet == \A q \in Requests : req[q].pc \in {"new", "done"}

NextTurn ==
    \/ \E r \in TurnRequests, u \in Users, m \in Messages : Quiet /\ ChatRequest(r, u, m, NoHistory)
    \/ \E p \in Requests, h \in HttpOutcomes, c \in Completions : Fetch1Response(p, h, c)
    \/ \E p \in Requests, t \in ToolOutcomes : ToolReturn(p, t)
    \/ \E p \in Requests, h \in HttpOutcomes, c \in Summaries : Fetch2Response(p, h, c)
    \/ \E u \in Admins : CacheClear(u)
    \/ Tick

SpecTurn == Init /\ [][NextTurn]_vars


\* ------------------------------------------------------------------ claims
SameTriple(a, b) ==
    /\ req[a].user = req[b].user
    /\ req[a].message = req[b].message
    /\ req[a].role = req[b].role

\* request r arrives in this step
Arrives(r) == req[r].pc = "new" /\ req'[r].pc # "new"

\* C1: requests with the same (userId, message, role) that arrive while no
\* cache entry exists and before the first of them settled share one
\* execution of processRequest: never two executions for one key at a time,
\* no cache entry for a key while its execution is in flight, every other
\* caller waits on that execution without a backend call of its own, and all
\* of them end with the answer of that execution.
C1_DedupCoalescing ==
    /\ \A a, b \in Requests :
          a # b /\ Processing(a) /\ Processing(b) => KeyOf(a) # KeyOf(b)
    /\ \A p \in Requests :
          Processing(p) => LiveEntries(responseCache, KeyOf(p), now) = {}
    /\ \A r \in Requests :
          req[r].pc = "waiting" =>
              /\ req[r].producer # r
              /\ Processing(req[r].producer)
              /\ KeyOf(req[r].producer) = KeyOf(r)
              /\ req[r].calls = 0
    /\ \A r \in Requests :
          req[r].pc = "done" /\ req[r].producer \notin {0, r} =>
              /\ req[r].calls = 0
              /\ req[req[r].producer].pc = "done"
              /\ req[r].status = req[req[r].producer].status
              /\ req[r].body = req[req[r].producer].body

C1_Witness ==
    \E a, b \in Requests :
        /\ a # b /\ SameTriple(a, b)
        /\ req[a].producer = a /\ req[b].producer = a
        /\ req[a].pc = "done" /\ req[b].pc = "done"
        /\ req[a].status = 200 /\ req[b].status = 200

\* C2 as stated: a request issued after an equal request completed
\* successfully, within the TTL window of its entry, is answered cached:
\* true with the same response, and the backend was invoked exactly once
\* across the two turns.
C2Issued(r0, r) ==
    /\ r0 # r
    /\ req[r0].pc = "done" /\ req[r0].status = 200
    /\ ~req[r0].cleared /\ now <= req[r0].entryExp
    /\ Arrives(r)
    /\ req'[r].user = req[r0].user
    /\ req'[r].message = req[r0].message
    /\ req'[r].role = req[r0].role

C2Replayed(r0, r) ==
    /\ req'[r].pc = "done" /\ req'[r].status = 200
    /\ req'[r].body.cached
    /\ req'[r].body.response = req[r0].body.response
    /\ req'[r].writer = req[r0].writer

C2_Original ==
    [][\A r0, r \in Requests :
          C2Issued(r0, r) =>
              /\ C2Replayed(r0, r)
              /\ req[req[r0].writer].calls + req'[r].calls = 1]_vars

\* C2 amended: ... the second is answered cached: true with the same
\* response and makes no backend call; the one execution of processRequest
\* that produced the entry made one backend call, or two when it honored a
\* tool directive.
C2_CacheDeterminism ==
    [][\A r0, r \in Requests :
          C2Issued(r0, r) =>
              /\ C2Replayed(r0, r)
              /\ req'[r].calls = 0
              /\ req[req[r0].writer].calls \in {1, 2}]_vars

C2_Witness ==
    \E r0, r \in Requests :
        /\ r0 # r /\ SameTriple(r0, r)
        /\ req[r0].status = 200 /\ ~req[r0].body.cached
        /\ req[r].status = 200 /\ req[r].body.cached
        /\ req[r].body.response = req[r0].body.response
        /\ req[r].writer = req[r0].writer

\* C3: a response cached or in flight for one user is never given to
\* another: every answer was produced by a turn executed for the user who
\* receives it, every waiter waits on a turn of its own user, and every
\* cache entry holds a response produced for the user of its key.
C3_Isolation ==
    /\ \A r \in Requests : req[r].status = 200 => req[r].servedFor = req[r].user
    /\ \A r \in Requests :
          req[r].pc = "waiting" => req[req[r].producer].user = req[r].user
    /\ \A e \in responseCache : e.value.userId = e.key[1]

C3_Witness ==
    \E a, b \in Requests :
        /\ req[a].user # req[b].user
        /\ req[a].message = req[b].message /\ req[a].role = req[b].role
        /\ req[a].status = 200 /\ req[b].status = 200
        /\ req[a].servedFor = req[a].user /\ req[b].servedFor = req[b].user
        /\ \E e \in responseCache : e.key[1] = req[a].user /\ now <= e.expiresAt

\* C6: when the last computation of a key failed and none is in flight, the
\* next request of that key is neither answered from the cache nor attached
\* to the failed computation: it starts processRequest and makes a backend
\* call of its own.
C6_NoErrorCaching ==
    [][\A r \in Requests :
          ( /\ Arrives(r)
            /\ ValidMessage(req'[r].message)
            /\ lastOutcome[generateCacheKey(req'[r].user, req'[r].message, req'[r].role)] = "fail"
            /\ \A p \in Requests :
                  Processing(p) =>
                      KeyOf(p) # generateCacheKey(req'[r].user, req'[r].message, req'[r].role) )
          => /\ req'[r].pc = "fetch1"
             /\ req'[r].producer = r
             /\ req'[r].calls = 1]_vars

C6_Witness ==
    \E r0, r \in Requests :
        /\ r0 < r /\ SameTriple(r0, r)
        /\ req[r0].status = 500 /\ req[r0].producer = r0
        /\ req[r].producer = r /\ req[r].calls >= 1


\* the turns that ran processRequest to its end
Produced(p) == req[p].pc = "done" /\ req[p].producer = p /\ req[p].status = 200

\* C4: the action of every client-facing chat response is null or a command
\* of one of the four kinds whose target is in the allow-list registry.
C4_ActionAllowList ==
    \A r \in Requests :
        req[r].status = 200 =>
            \/ req[r].body.action \in {NullAction, AbsentAction}
            \/ /\ req[r].body.action.action \in ActionKinds
               /\ req[r].body.action.target \in OwnKeys(req[r].body.action.action)

\* C7: a response is written to the response cache only if the turn had no
\* backend-level and no tool-level error.
C7_NoDegradedCached == \A e \in responseCache : ~e.degraded

\* C8: a first completion holding a tool directive in the documented format
\* TOOL_CALL: {"tool": <name>, "params": {...}} makes the turn call
\* executeTool with that name and those params and issue one summarization
\* call; the answer is not a cached one and carries no action.
C8_DocumentedToolCall ==
    \A p \in Requests :
        Produced(p) /\ req[p].first \in {DocToolCall, DocToolCallNoParams} =>
            /\ req[p].tool = "getLoggedHours"
            /\ req[p].params = (IF req[p].first = DocToolCall THEN {"period=week"} ELSE {})
            /\ req[p].calls = 2
            /\ ~req[p].body.cached
            /\ req[p].body.action = NullAction

\* C9: a TOOL_CALL: marker followed by a payload that is not JSON raises no
\* error and dispatches no tool, and the turn answers with the completion
\* text itself (less its recognized directives), not with a replacement.
C9_MalformedToolDirective ==
    \A p \in Requests :
        req[p].pc = "done" /\ req[p].producer = p /\ req[p].first = JunkToolCall =>
            /\ req[p].status = 200
            /\ req[p].tool = "none"
            /\ req[p].body.response \in
                  { req[p].first, Trim(RemoveAll(req[p].first, TOOL_MARK, 1)),
                    Trim(RemoveAll(req[p].first, ACTION_MARK, 1)) }

\* the well-formed, allow-listed ACTION_COMMAND directives of a text: the
\* positions where the pattern matches and the payload is such a command
AllowedDirectiveAt(s, i) ==
    /\ MatchEndAt(s, ACTION_MARK, i) # 0
    /\ LET pl == SubSeq(s, SkipSpace(s, i + 1), MatchEndAt(s, ACTION_MARK, i))
       IN  /\ JsonParses(pl)
           /\ JsonField(pl, "action") \in ActionKinds
           /\ JsonField(pl, "target") \in OwnKeys(JsonField(pl, "action"))

FirstAllowedDirective(s) ==
    LET i == CHOOSE x \in 1..Len(s) :
                 AllowedDirectiveAt(s, x) /\ \A y \in 1..(x - 1) : ~AllowedDirectiveAt(s, y)
        pl == SubSeq(s, SkipSpace(s, i + 1), MatchEndAt(s, ACTION_MARK, i))
    IN  [action |-> JsonField(pl, "action"), target |-> JsonField(pl, "target")]

\* C10: when the final completion text holds a well-formed ACTION_COMMAND
\* directive with an allow-listed target, the fresh response carries that
\* action object and its text holds no ACTION_COMMAND directive any more.
C10_AllowedActionReturned ==
    \A p \in Requests :
        Produced(p) /\ (\E i \in 1..Len(req[p].ai) : AllowedDirectiveAt(req[p].ai, i)) =>
            /\ req[p].body.action = FirstAllowedDirective(req[p].ai)
            /\ ~HasMatch(req[p].body.response, ACTION_MARK)


\* ------------------------------------------------- chatbot action executor
\* property names every object literal inherits from Object.prototype
ProtoFunctions == { "constructor", "toString" }
ProtoObjects == { "__proto__" }

\* what ACTION_REGISTRY[kind][key] evaluates to: the own value of an
\* enumerated key, else what the prototype chain supplies, else undefined
RegistryLookup(kind, key) ==
    IF key \in OwnKeys(kind) THEN "own"
    ELSE IF key \in ProtoFunctions THEN "function"
    ELSE IF key \in ProtoObjects THEN "object"
    ELSE Undefined

\* !value for the strings the handlers receive
Falsy(x) == x \in { Undefined, "" }

Outcome(res, tm, eff, toast) ==
    [result |-> res, timers |-> tm, effects |-> eff \cup toast]

NoEffect == Outcome(FALSE, {}, {}, {})
Toast(kind) == { [kind |-> "toast", arg |-> kind] }

executeNavigate(target) ==
    IF Falsy(target) THEN NoEffect
    ELSE IF RegistryLookup("navigate", target) = Undefined THEN NoEffect
    ELSE Outcome(TRUE, { [kind |-> "navigate", arg |-> target] }, {}, Toast("info"))

executeClick(selector, present) ==
    IF Falsy(selector) THEN NoEffect
    ELSE IF RegistryLookup("click", selector) = Undefined THEN NoEffect
    ELSE IF ~present THEN Outcome(FALSE, {}, {}, Toast("error"))
    ELSE Outcome(TRUE, { [kind |-> "click", arg |-> selector] }, {}, {})

\* a registry value that is not a selector string makes querySelector throw;
\* executeChatbotAction catches it
executeScroll(target, present) ==
    IF Falsy(target) THEN NoEffect
    ELSE IF RegistryLookup("scroll", target) = Undefined THEN NoEffect
    ELSE IF RegistryLookup("scroll", target) # "own" THEN Outcome(FALSE, {}, {}, Toast("error"))
    ELSE IF ~present THEN Outcome(FALSE, {}, {}, Toast("error"))
    ELSE Outcome(TRUE, {}, { [kind |-> "scroll", arg |-> target] }, Toast("info"))

executeOpenModal(modalName, present) ==
    IF Falsy(modalName) THEN NoEffect
    ELSE IF RegistryLookup("open_modal", modalName) = Undefined THEN NoEffect
    ELSE IF RegistryLookup("open_modal", modalName) = "object" THEN NoEffect
    ELSE Outcome(TRUE, {},
                 IF RegistryLookup("open_modal", modalName) = "own" /\ present
                 THEN { [kind |-> "open_modal", arg |-> modalName] } ELSE {},
                 Toast("success"))

\* a mutant of executeChatbotAction: the default branch navigates
executeChatbotActionDefaultNavigate(action, arg, present) ==
    IF Falsy(action) THEN NoEffect
    ELSE CASE action = "navigate" -> executeNavigate(arg)
           [] action = "click" -> executeClick(arg, present)
           [] action = "scroll" -> executeScroll(arg, present)
           [] action = "open_modal" -> executeOpenModal(arg, present)
           [] OTHER -> executeNavigate(arg)

\* window.executeChatbotAction: arg is the field the handler of the action
\* kind reads (target, element or modal); present says whether the DOM holds
\* the element the handler queries
executeChatbotAction(action, arg, present) ==
    IF Falsy(action) THEN NoEffect
    ELSE CASE action = "navigate" -> executeNavigate(arg)
           [] action = "click" -> executeClick(arg, present)
           [] action = "scroll" -> executeScroll(arg, present)
           [] action = "open_modal" -> executeOpenModal(arg, present)
           [] OTHER -> NoEffect

ExecActions == ActionKinds \cup { "dance", Undefined }
ExecStrings ==
    { "employee-dashboard", "#addTimesheetBtn", "timesheets-section", "add-timesheet",
      "constructor", "__proto__", "secret-admin-panel", "view-details", Undefined }

ExecuteAction(action, arg, present) ==
    /\ execCalls < MaxExec
    /\ execCalls' = execCalls + 1
    /\ LET out == executeChatbotAction(action, arg, present)
       IN  /\ execLast' = [action |-> action, arg |-> arg, result |-> IF out.result THEN "true" ELSE "false"]
           /\ timers' = timers \cup out.timers
           /\ ui' = ui \cup out.effects
    /\ UNCHANGED << serverVars, toolVars, clearRes, widget, report >>

\* a setTimeout callback runs: the navigation or the click happens
TimerFires(t) ==
    /\ t \in timers
    /\ timers' = timers \ {t}
    /\ ui' = ui \cup {t} \cup (IF t.kind = "click" THEN Toast("success") ELSE {})
    /\ UNCHANGED << serverVars, toolVars, clearRes, widget, report, execCalls, execLast >>

NextExec ==
    \/ \E a \in ExecActions, x \in ExecStrings, present \in BOOLEAN : ExecuteAction(a, x, present)
    \/ \E t \in timers : TimerFires(t)

SpecExec == Init /\ [][NextExec]_vars

\* C5: the executor navigates, clicks, scrolls or opens a modal, and returns
\* true, only for a string that is an enumerated key of the registry table
\* of the action kind; for any other string nothing happens and the result
\* is false.
C5_ExecutorAllowList ==
    /\ execLast.result = "true" => execLast.arg \in OwnKeys(execLast.action)
    /\ \A e \in timers \cup ui : e.kind \in ActionKinds => e.arg \in OwnKeys(e.kind)


\* ---------------------------------------------------- response and dedup
\* C11: every successful chat response, served from the cache or freshly
\* computed, carries the action of the turn that produced the response: no
\* action when that turn produced none, and the same action object when it
\* produced one, a cache hit included.
C11_ResponseAction ==
    \A r \in Requests :
        req[r].pc = "done" /\ req[r].status = 200 =>
            /\ req[r].body.model = "llama-3.1-8b-instant"
            /\ LET produced == ParsedAction(req[req[r].writer].ai)
               IN  IF produced = NullAction
                   THEN req[r].body.action \in {NullAction, AbsentAction}
                   ELSE req[r].body.action = produced

\* C12: an in-flight entry lives for one round trip only.  The step in which
\* a producer settles, by success or by failure and whatever the number of
\* callers attached, leaves the in-flight table without an entry for its
\* key; the table never holds an entry of a settled producer; and a request
\* that reaches deduplicateRequest while its key has no entry starts its own
\* producer.
C12_InFlightLifetime ==
    [][ /\ \A p \in Requests :
              Processing(p) /\ req'[p].pc = "done" =>
                  /\ InFlightFor(inFlight', KeyOf(p)) = {}
                  /\ \A q \in Requests : req[q].producer = p => req'[q].pc = "done"
        /\ \A f \in inFlight' : req'[f.producer].pc \in {"fetch1", "tool", "fetch2"}
        /\ \A r \in Requests :
              ( /\ Arrives(r)
                /\ req'[r].pc \in {"fetch1", "waiting"}
                /\ InFlightFor(inFlight, generateCacheKey(req'[r].user, req'[r].message,
                                                          req'[r].role)) = {} )
              => /\ req'[r].pc = "fetch1"
                 /\ req'[r].producer = r
                 /\ [key |-> generateCacheKey(req'[r].user, req'[r].message, req'[r].role),
                     producer |-> r] \in inFlight' ]_vars

\* a producer settled with a result, its entry left the table, and a later
\* request of the same key (the cache entry expired or cleared) runs its
\* own producer
C12_Witness ==
    \E a, b \in Requests :
        /\ a < b /\ SameTriple(a, b)
        /\ req[a].pc = "done" /\ req[a].producer = a /\ req[a].status = 200
        /\ req[b].producer = b /\ Processing(b)
        /\ inFlight = { [key |-> KeyOf(b), producer |-> b] }

\* C13: when the in-flight computation of a key fails, the same step ends
\* every caller attached to it with the same failure (status 500, the same
\* error body); no attached caller makes a backend call of its own and none
\* is answered with a success.
C13_FailurePropagation ==
    [][\A p \in Requests :
          Processing(p) /\ req'[p].pc = "done" /\ req'[p].status = 500 =>
              \A q \in Requests :
                  req[q].producer = p =>
                      /\ req'[q].pc = "done"
                      /\ req'[q].status = 500
                      /\ req'[q].body = req'[p].body
                      /\ req'[q].calls = req[q].calls
                      /\ q # p => req'[q].calls = 0]_vars

C13_Witness ==
    \E a, b \in Requests :
        /\ a # b /\ SameTriple(a, b)
        /\ req[a].producer = a /\ req[b].producer = a
        /\ req[a].pc = "done" /\ req[b].pc = "done"
        /\ req[a].status = 500 /\ req[b].status = 500
        /\ req[b].body.message = "Failed to get response from AI"
        /\ req[b].calls = 0


\* C15: a cache read never returns a stale value.  A request is answered
\* from the cache exactly when an entry of its key exists whose expiresAt is
\* not in the past, and then with the value of that entry; a read later than
\* expiresAt is a miss and leaves no entry of the key behind; a cache clear
\* empties the cache, so that every read is a miss until the next write.
C15_NoStaleRead ==
    [][ /\ \A r \in Requests :
              Arrives(r) /\ ValidMessage(req'[r].message) =>
                  LET key == generateCacheKey(req'[r].user, req'[r].message, req'[r].role)
                      live == { e \in responseCache : e.key = key /\ now <= e.expiresAt }
                  IN  /\ req'[r].body.cached <=> live # {}
                      /\ req'[r].body.cached =>
                            \E e \in live : /\ req'[r].body.response = e.value.response
                                            /\ req'[r].body.model = e.value.model
                      /\ \A e \in responseCache' : e.key = key => now <= e.expiresAt
        /\ (\E q \in Requests : ~req[q].cleared /\ req'[q].cleared) => responseCache' = {}
      ]_vars

\* a request found the entry of an earlier identical turn expired and ran
\* processRequest itself, and the stale entry is gone
C15_Witness ==
    \E a, b \in Requests :
        /\ a < b /\ SameTriple(a, b)
        /\ req[a].pc = "done" /\ req[a].producer = a /\ req[a].status = 200
        /\ ~req[a].cleared /\ ~req[b].cleared
        /\ req[b].producer = b /\ ~req[b].body.cached
        /\ now > req[a].entryExp
        /\ \A e \in responseCache : e.key = KeyOf(a) => e.writer = b

\* C20: a chat request whose message is empty or not a string is answered
\* at once with status 400: it makes no backend call, dispatches no tool,
\* joins no computation, and the response cache and the in-flight table are
\* left as they were.
C20_InvalidMessageRejected ==
    [][\A r \in Requests :
          Arrives(r) /\ req'[r].message \in ({ "" } \cup NonStrings) =>
              /\ req'[r].pc = "done"
              /\ req'[r].status = 400
              /\ req'[r].body.error = "Message is required"
              /\ req'[r].calls = 0 /\ req'[r].tool = "none" /\ req'[r].producer = 0
              /\ responseCache' = responseCache
              /\ inFlight' = inFlight]_vars

\* an empty message was refused while another request was in flight
C20_Witness ==
    \E a, b \in Requests :
        /\ a # b
        /\ Processing(a) /\ inFlight # {}
        /\ req[b].pc = "done" /\ req[b].status = 400 /\ req[b].message = ""
        /\ req[b].user = req[a].user

\* ------------------------------------------------------------ executeTool
\* the names the switch of executeTool dispatches
DispatchedTools ==
    { "getLoggedHours", "getPendingTasks", "getAssignedProjects", "checkTodayTimesheet",
      "getAttendanceStatus", "getLeaveBalance", "getPendingApprovals", "getProjectTimeSpent",
      "suggestTaskNames", "getRepeatedEntries", "checkMissingHours", "getUpcomingDeadlines",
      "detectIncompleteEntries", "detectOverlappingHours", "checkOvertimeLimits",
      "suggestCorrections", "getTodayTasks", "getManagerMissingTimesheets", "getTopLoggers",
      "getOnboardingHelp" }
\* the tools that look at the role first
GatedTools == { "getPendingApprovals", "getManagerMissingTimesheets", "getTopLoggers" }
\* role !== 'manager' && role !== 'admin'
Ungated(role) == role # "manager" /\ role # "admin"

\* the arguments the calls are made with
ToolNames == { "getLoggedHours", "getPendingApprovals", "dropTables" }
ToolUsers == { "u1" }
ToolRoles == { "employee", "manager" }
ToolParams == { {}, {"period=week"} }
\* what the database gives a tool function: its data, or an I/O failure that
\* the function catches and turns into { error: ... }
QueryOutcomes == { "data", "error" }

\* Tool Result Cache (cache-manager): the key leaves the role out
ToolTTL == 1
toolCacheKey(toolName, userId, params) == << toolName, userId, params >>

getCachedToolResult(cache, toolName, userId, params, t) ==
    LiveEntries(cache, toolCacheKey(toolName, userId, params), t)

setCachedToolResult(cache, toolName, userId, result, params, t) ==
    LET key == toolCacheKey(toolName, userId, params)
    IN  { e \in cache : e.key # key }
          \cup { [key |-> key, value |-> result, expiresAt |-> t + ToolTTL] }

\* a mutant of ToolDone: the result is cached whatever its shape
ToolDoneCacheAll(c, rec, result, cache) ==
    /\ toolCache' = setCachedToolResult(cache, rec.tool, rec.user, result, rec.params, now)
    /\ call' = [call EXCEPT ![c] = [rec EXCEPT !.pc = "done", !.result = result,
                                        !.entryExp = now + ToolTTL]]

\* the tail of executeTool: cache the result unless it is missing or
\* error-shaped, return it
ToolDone(c, rec, result, cache) ==
    /\ toolCache' = IF ~ErrorShaped(result)
                    THEN setCachedToolResult(cache, rec.tool, rec.user, result, rec.params, now)
                    ELSE cache
    /\ call' = [call EXCEPT ![c] = [rec EXCEPT !.pc = "done", !.result = result,
                                        !.entryExp = IF ErrorShaped(result) THEN 0
                                                     ELSE now + ToolTTL]]

\* a mutant of Dispatch: a name the switch does not know runs a data query
DispatchAnyName(toolName, userRole) ==
    IF toolName \in GatedTools /\ Ungated(userRole) THEN "advisory" ELSE "query"

\* the switch: the default branch for an unknown name, the soft denial of a
\* gated tool, or a data query
Dispatch(toolName, userRole) ==
    IF toolName \notin DispatchedTools THEN "unknown"
    ELSE IF toolName \in GatedTools /\ Ungated(userRole) THEN "advisory"
    ELSE "query"

\* a mutant of CachedToolResultFor: the cache check never finds anything
CachedToolResultNever(toolName, userId, params) == {}

\* the cache check of executeTool
CachedToolResultFor(toolName, userId, params) ==
    getCachedToolResult(toolCache, toolName, userId, params, now)

\* executeTool is called: cache check, then the switch up to the data query
ExecuteToolStart(c, toolName, userId, userRole, params) ==
    /\ call[c].pc = "new"
    /\ IF c = 1 THEN TRUE ELSE call[c - 1].pc # "new"
    /\ LET rec == [call[c] EXCEPT !.tool = toolName, !.user = userId, !.role = userRole,
                                   !.params = params]
           cachedResult == CachedToolResultFor(toolName, userId, params)
           evicted == AfterGet(toolCache, toolCacheKey(toolName, userId, params), now)
           branch == Dispatch(toolName, userRole)
       IN  IF cachedResult # {}
           THEN LET e == CHOOSE x \in cachedResult : TRUE
                IN  /\ call' = [call EXCEPT ![c] = [rec EXCEPT !.pc = "done", !.hit = TRUE,
                                                        !.result = e.value,
                                                        !.entryExp = e.expiresAt]]
                    /\ UNCHANGED toolCache
           ELSE IF branch = "unknown"
           THEN ToolDone(c, rec, [kind |-> "unknown", by |-> c], evicted)
           ELSE IF branch = "advisory"
           THEN ToolDone(c, [rec EXCEPT !.invoked = TRUE], [kind |-> "advisory", by |-> c],
                         evicted)
           ELSE /\ call' = [call EXCEPT ![c] = [rec EXCEPT !.pc = "query", !.invoked = TRUE,
                                                    !.queried = TRUE]]
                /\ toolCache' = evicted
    /\ UNCHANGED << serverVars, execVars, clearRes, widget, report >>

\* the data query of the tool function comes back
ExecuteToolFinish(c, outcome) ==
    /\ call[c].pc = "query"
    /\ ToolDone(c, call[c], [kind |-> outcome, by |-> c], toolCache)
    /\ UNCHANGED << serverVars, execVars, clearRes, widget, report >>

NextTool ==
    \/ \E c \in Calls, t \in ToolNames, u \in ToolUsers, ro \in ToolRoles, ps \in ToolParams :
          ExecuteToolStart(c, t, u, ro, ps)
    \/ \E c \in Calls, o \in QueryOutcomes : ExecuteToolFinish(c, o)
    \/ \E u \in Admins : CacheClear(u)
    \/ Tick

SpecTool == Init /\ [][NextTool]_vars

SameCall(a, b) ==
    /\ call[a].tool = call[b].tool
    /\ call[a].user = call[b].user
    /\ call[a].params = call[b].params

\* call c is made in this step
Called(c) == call[c].pc = "new" /\ call'[c].pc # "new"

\* C16: an error-shaped tool result is never written to the tool result
\* cache: the cache never holds one, and the step in which a call returns an
\* error-shaped result (the unknown-tool result included) writes no entry,
\* so that the call was not answered from the cache either.
C16_NoToolErrorCached ==
    [][ /\ \A e \in toolCache' : ~ErrorShaped(e.value)
        /\ \A c \in Calls :
              call[c].pc # "done" /\ call'[c].pc = "done" /\ ErrorShaped(call'[c].result) =>
                  /\ toolCache' \subseteq toolCache
                  /\ ~call'[c].hit ]_vars

\* a data query failed, and the following identical call ran the tool again
C16_Witness ==
    \E a, b \in Calls :
        /\ a < b /\ SameCall(a, b)
        /\ call[a].pc = "done" /\ call[a].result.kind = "error"
        /\ call[b].pc = "done" /\ call[b].queried /\ ~call[b].hit
        /\ call[b].result = [kind |-> "data", by |-> b]

\* C17 as stated: a call made after an identical (toolName, userId, params)
\* call returned a non-error result, within the TTL window of that result,
\* returns the cached result and does not invoke the data-query function.
C17Repeated(c0, c) ==
    /\ c0 # c
    /\ call[c0].pc = "done" /\ ~ErrorShaped(call[c0].result)
    /\ now <= call[c0].entryExp
    /\ Called(c)
    /\ call'[c].tool = call[c0].tool
    /\ call'[c].user = call[c0].user
    /\ call'[c].params = call[c0].params

C17Served(c) ==
    /\ call'[c].pc = "done" /\ call'[c].hit
    /\ ~call'[c].invoked /\ ~call'[c].queried
    /\ ~ErrorShaped(call'[c].result)
    /\ \E e \in toolCache : e.value = call'[c].result

C17_Original ==
    [][\A c0, c \in Calls : C17Repeated(c0, c) => C17Served(c)]_vars

\* C17 amended: ... and with no clearing of the caches in between ...
C17_ToolCacheHit ==
    [][\A c0, c \in Calls :
          C17Repeated(c0, c) /\ ~call[c0].cleared => C17Served(c)]_vars

C17_Witness ==
    \E a, b \in Calls :
        /\ a < b /\ SameCall(a, b)
        /\ call[a].pc = "done" /\ call[a].result = [kind |-> "data", by |-> a]
        /\ call[b].pc = "done" /\ call[b].hit /\ ~call[b].invoked
        /\ call[b].result = call[a].result

\* C18: a role-gated tool invoked with a role other than manager or admin
\* returns the advisory result (a message, no error) and no data query runs.
C18_SoftDenial ==
    \A c \in Calls :
        call[c].pc = "done" /\ call[c].tool \in GatedTools /\ Ungated(call[c].role) =>
            /\ call[c].result.kind = "advisory"
            /\ ~call[c].queried

\* C19: executeTool with a name outside the dispatched names returns the
\* error-shaped result { error: 'Unknown tool' } at once: no exception, no
\* tool function invoked, no data query, nothing cached for the call.
C19_UnknownTool ==
    \A c \in Calls :
        call[c].pc # "new" /\ call[c].tool \notin DispatchedTools =>
            /\ call[c].pc = "done"
            /\ call[c].result = [kind |-> "unknown", by |-> c]
            /\ ErrorShaped(call[c].result)
            /\ ~call[c].invoked /\ ~call[c].queried /\ ~call[c].hit
            /\ \A e \in toolCache : e.key[1] # call[c].tool

C19_Witness ==
    \E a, b \in Calls :
        /\ a < b /\ SameCall(a, b)
        /\ call[a].tool = "dropTables" /\ call[b].tool = "dropTables"
        /\ call[a].pc = "done" /\ call[b].pc = "done"
        /\ call[a].result.kind = "unknown" /\ call[b].result.kind = "unknown"

\* ------------------------------------------------------- /cache/clear
\* Both caches filled by plain turns and tool calls, and /cache/clear asked
\* for by every user.
NextAdmin ==
    \/ \E r \in TurnRequests : ChatRequest(r, "u1", "hi", NoHistory)
    \/ \E p \in Requests : Fetch1Response(p, "ok", << "txt" >>)
    \/ \E c \in Calls : ExecuteToolStart(c, "getLoggedHours", "u1", "employee", {})
    \/ \E c \in Calls : ExecuteToolFinish(c, "data")
    \/ \E u \in Users : CacheClear(u)
    \/ Tick

SpecAdmin == Init /\ [][NextAdmin]_vars

\* C21: /cache/clear asked for by a user who is not an admin is answered
\* 403 and leaves both caches as they are; asked for by an admin it is
\* answered 200 and empties them; and no step takes an unexpired entry out
\* of a cache without replacing it except an admin's /cache/clear.
C21_ClearAdminOnly ==
    [][ /\ clearRes' # clearRes =>
              IF RoleOf(clearRes'.by) # "admin"
              THEN /\ clearRes'.status = 403
                   /\ responseCache' = responseCache
                   /\ toolCache' = toolCache
              ELSE /\ clearRes'.status = 200
                   /\ responseCache' = {}
                   /\ toolCache' = {}
        /\ ( \/ \E e \in responseCache :
                   now <= e.expiresAt /\ \A x \in responseCache' : x.key # e.key
             \/ \E e \in toolCache :
                   now <= e.expiresAt /\ \A x \in toolCache' : x.key # e.key )
           => /\ clearRes'.status = 200
              /\ RoleOf(clearRes'.by) = "admin"
              /\ responseCache' = {} /\ toolCache' = {} ]_vars

\* a user who is not an admin was refused with both caches filled
C21_Witness ==
    /\ clearRes.status = 403 /\ RoleOf(clearRes.by) = "employee"
    /\ \E e \in responseCache : now <= e.expiresAt
    /\ \E e \in toolCache : now <= e.expiresAt

\* ------------------------------------------------------ order of a turn
\* the entries a step adds to the response cache
Written == responseCache' \ responseCache
\* request r is answered by the step
Answered(r) == req[r].pc # "done" /\ req'[r].pc = "done"

\* C22: a turn answered by the cache lookup registers nothing in the
\* in-flight table, issues no backend call, dispatches no tool and writes
\* no cache entry; the cache write of a computation comes after its last
\* backend call and not after any of its callers is answered, and is made
\* once per computation however many callers are attached.
C22_TurnOrder ==
    [][ /\ \A r \in Requests :
              (Answered(r) /\ req'[r].body.cached) =>
                  /\ req[r].pc = "new"
                  /\ inFlight' = inFlight
                  /\ Written = {}
                  /\ req'[r].calls = 0 /\ req'[r].tool = "none"
                  /\ req'[r].producer = 0
        /\ \A e \in Written :
              /\ Written = { e }
              /\ Processing(e.writer) /\ Answered(e.writer)
              /\ req'[e.writer].calls = req[e.writer].calls
              /\ req[e.writer].calls >= 1
              /\ \A q \in Requests :
                    req'[q].producer = e.writer => req[q].pc # "done"
        /\ \A p \in Requests :
              (Processing(p) /\ Answered(p) /\ req'[p].status = 200) =>
                  \E e \in Written : e.writer = p /\ e.key = KeyOf(p)
        /\ \A q \in Requests :
              (Answered(q) /\ req'[q].status = 200 /\ ~req'[q].body.cached) =>
                  \E e \in Written : e.writer = req'[q].producer ]_vars

\* a computation with a caller attached ran the tool path, wrote its one
\* entry after the summarization call and answered both callers
C22_Witness ==
    \E a, b \in Requests :
        /\ a # b
        /\ req[a].pc = "done" /\ req[a].producer = a /\ req[a].calls = 2
        /\ req[b].pc = "done" /\ req[b].status = 200 /\ req[b].producer = a
        /\ \E e \in responseCache : e.writer = a /\ e.key = KeyOf(b)

\* ------------------------------------------------- directives of a turn
\* One user's turns, one after the other, with every answer the backend and
\* the tool can give, texts with several directives of a type and summaries
\* that themselves hold a directive.
DirectiveCompletions == Completions \cup { TwoToolCalls, JunkThenTool }
DirectiveSummaries == Summaries \cup { FlatToolCall }

NextDirective ==
    \/ \E r \in TurnRequests : Quiet /\ ChatRequest(r, "u1", "hi", NoHistory)
    \/ \E p \in Requests, h \in HttpOutcomes, c \in DirectiveCompletions :
          Fetch1Response(p, h, c)
    \/ \E p \in Requests, t \in ToolOutcomes : ToolReturn(p, t)
    \/ \E p \in Requests, h \in HttpOutcomes, c \in DirectiveSummaries :
          Fetch2Response(p, h, c)
    \/ Tick

SpecDirective == Init /\ [][NextDirective]_vars

\* C23: a turn dispatches a tool at most once, only out of its initial
\* backend call, and issues at most two backend calls, the second only as
\* the summarization of a tool that was dispatched and returned; once the
\* summarization call is issued the turn only ever ends, whatever directive
\* its output holds.
C23_OneToolTwoCalls ==
    [][ \A p \in Requests :
          /\ req'[p].calls <= 2
          /\ req'[p].calls = 2 =>
                req'[p].tool # "none" /\ req'[p].toolRes \in { "ok", "error" }
          /\ (req'[p].pc = "tool" /\ req[p].pc # "tool") =>
                req[p].pc = "fetch1" /\ req[p].calls = 1 /\ req[p].toolRes = "none"
          /\ req[p].pc = "fetch2" =>
                /\ req'[p].pc \in { "fetch2", "done" }
                /\ req'[p].calls = req[p].calls
                /\ req'[p].tool = req[p].tool /\ req'[p].toolRes = req[p].toolRes
          /\ req[p].pc = "done" =>
                req'[p].pc = "done" /\ req'[p].calls = req[p].calls ]_vars

\* a turn ended after two backend calls with a tool directive in the output
\* of its summarization call
C23_Witness ==
    \E p \in Requests :
        /\ req[p].pc = "done" /\ req[p].calls = 2 /\ ~req[p].sumFail
        /\ req[p].toolRes = "ok"
        /\ HasMatch(req[p].ai, TOOL_MARK)

C25_BackendFailureApology ==
    \A r \in Requests :
        req[r].pc = "done" =>
            /\ req[r].status = 500 => req[r].body.message # BadBodyText
            /\ req[r].status # 200 =>
                  \/ req[r].status = 400 /\ ~ValidMessage(req[r].message)
                  \/ req[r].status = 500 /\ req[req[r].producer].first = << >>

\* the occurrences of a directive in a text that are well formed: the
\* positions where the pattern matches and the payload parses
WellFormedAt(s, mark, i) ==
    /\ MatchEndAt(s, mark, i) # 0
    /\ JsonParses(SubSeq(s, SkipSpace(s, i + 1), MatchEndAt(s, mark, i)))

WellFormed(s, mark) == { i \in 1..Len(s) : WellFormedAt(s, mark, i) }

\* the payload of the first well-formed occurrence
FirstWellFormed(s, mark) ==
    LET i == CHOOSE x \in WellFormed(s, mark) : \A y \in WellFormed(s, mark) : x <= y
    IN  SubSeq(s, SkipSpace(s, i + 1), MatchEndAt(s, mark, i))

\* C26: the first well-formed occurrence of each marker is the one honored,
\* also when a malformed occurrence of the marker stands before it: its
\* tool is dispatched, its action is returned; and when the final text has
\* no well-formed ACTION_COMMAND occurrence no action is produced and the
\* text stays as it was (the same for a malformed TOOL_CALL is C9).
C26_FirstWellFormedHonored ==
    \A p \in Requests :
        Produced(p) =>
            /\ WellFormed(req[p].first, TOOL_MARK) # {} =>
                  /\ req[p].toolRes # "none"
                  /\ req[p].tool = JsonField(FirstWellFormed(req[p].first, TOOL_MARK), "tool")
            /\ WellFormed(req[p].ai, ACTION_MARK) # {} =>
                  /\ req[p].body.action.action =
                        JsonField(FirstWellFormed(req[p].ai, ACTION_MARK), "action")
                  /\ req[p].body.action.target =
                        JsonField(FirstWellFormed(req[p].ai, ACTION_MARK), "target")
            /\ (Includes(req[p].ai, ACTION_MARK) /\ WellFormed(req[p].ai, ACTION_MARK) = {}) =>
                  req[p].body.action = NullAction /\ req[p].body.response = req[p].ai

\* C27: the response text handed to the client or kept in the response
\* cache holds no directive: neither the TOOL_CALL nor the ACTION_COMMAND
\* pattern matches in it, whatever the summarization call answered.
C27_NoDirectiveInResponse ==
    /\ \A r \in Requests :
          (req[r].pc = "done" /\ req[r].status = 200) =>
              /\ ~HasMatch(req[r].body.response, TOOL_MARK)
              /\ ~HasMatch(req[r].body.response, ACTION_MARK)
    /\ \A e \in responseCache :
          /\ ~HasMatch(e.value.response, TOOL_MARK)
          /\ ~HasMatch(e.value.response, ACTION_MARK)

\* C28: the result executeTool returns for a role-gated tool reflects the
\* role of the call it is returned to: a result served from the tool cache
\* was produced by a call whose role stood on the same side of the gate, so
\* an advisory never reaches a manager or admin and a manager's data never
\* reaches an ungated role.
C28_ResultReflectsRole ==
    \A c \in Calls :
        (call[c].pc = "done" /\ call[c].tool \in GatedTools /\ call[c].hit) =>
            /\ Ungated(call[c].role) = Ungated(call[call[c].result.by].role)
            /\ call[c].result.kind = "advisory" <=> Ungated(call[c].role)

\* ------------------------------------------------------------- history
\* One user asking the same question with and without history, at once and
\* one after the other.
NextHistory ==
    \/ \E r \in Requests, h \in Histories : ChatRequest(r, "u1", "hi", h)
    \/ \E p \in Requests, h \in CoreHttp, c \in CoreCompletions : Fetch1Response(p, h, c)
    \/ \E p \in Requests, t \in CoreToolOutcomes : ToolReturn(p, t)
    \/ \E p \in Requests, h \in CoreHttp, c \in CoreSummaries : Fetch2Response(p, h, c)
    \/ Tick

SpecHistory == Init /\ [][NextHistory]_vars

\* request b arrives with the triple of request a and another history
OtherHistory(a, b) ==
    /\ a # b
    /\ Arrives(b)
    /\ req'[b].user = req[a].user
    /\ req'[b].message = req[a].message
    /\ req'[b].role = req[a].role
    /\ req'[b].history # req[a].history

\* C29: the history takes no part in the cache key or the dedup key: a
\* request that arrives with the (userId, message, role) of another and a
\* different history attaches to the computation of the other when that is
\* in flight, and is answered from the entry the other's turn wrote when
\* that is still live; the response it gets was computed by a backend call
\* that took along the history of the turn that computed it, not its own.
C29_HistoryNotInKey ==
    [][ /\ \A a, b \in Requests :
              OtherHistory(a, b) =>
                  /\ Processing(a) =>
                        /\ req'[b].pc = "waiting" /\ req'[b].producer = a
                        /\ req'[b].calls = 0 /\ req'[b].sent = << >>
                        /\ inFlight' = inFlight
                  /\ (req[a].pc = "done" /\ req[a].status = 200
                      /\ now <= req[a].entryExp) =>
                        /\ req'[b].pc = "done" /\ req'[b].body.cached
                        /\ req'[b].body.response = req[a].body.response
                        /\ req'[b].writer = req[a].writer
                        /\ req'[b].calls = 0 /\ req'[b].sent = << >>
        /\ \A r \in Requests :
              (req'[r].pc = "done" /\ req'[r].status = 200) =>
                  /\ req'[req'[r].writer].producer = req'[r].writer
                  /\ req'[req'[r].writer].sent = Slice(req'[req'[r].writer].history, 10)
                  /\ req'[r].writer # r => req'[r].sent = << >> ]_vars

\* a request with a history attached to the computation of a request
\* without one, and both were answered with what that computation returned
C29_Witness ==
    \E a, b \in Requests :
        /\ a # b /\ SameTriple(a, b)
        /\ req[a].history # req[b].history
        /\ req[a].producer = a /\ req[b].producer = a
        /\ req[a].pc = "done" /\ req[b].pc = "done"
        /\ req[b].status = 200 /\ req[b].body = req[a].body
        /\ req[a].sent = Slice(req[a].history, 10) /\ req[b].sent = << >>

\* C30: the cached flag of a success response is true exactly when the
\* response was served by the initial cache lookup: a caller that went
\* through deduplicateRequest, as the producer or attached to the
\* computation of another without a backend call of its own, is answered
\* cached: false.
C30_CachedFlag ==
    \A r \in Requests :
        (req[r].pc = "done" /\ req[r].status = 200) =>
            /\ req[r].body.cached <=> req[r].producer = 0
            /\ req[r].body.cached => req[r].calls = 0 /\ req[r].writer # r
            /\ (req[r].producer \notin { 0, r }) =>
                  ~req[r].body.cached /\ req[r].calls = 0

\* a caller attached to the computation of another was answered cached:
\* false without a backend call of its own
C30_Witness ==
    \E a, b \in Requests :
        /\ a # b
        /\ req[b].pc = "done" /\ req[b].status = 200
        /\ req[b].producer = a /\ req[b].calls = 0
        /\ ~req[b].body.cached
        /\ req[a].pc = "done" /\ ~req[a].body.cached /\ req[a].calls >= 1

\* ----------------------------------------------------------- chat widget
\* what the user may have typed when sendMessage is called
Inputs == { << "txt" >>, << "sp", "txt", "sp" >>, << "sp" >>, << >> }
\* what fetch may settle with: a response with a status, or a rejection
FetchOutcomes == { "200", "401", "403", "500", "reject" }
\* what response.json() may settle with: the body of the route, the same
\* with an action, a body that is JSON null, or a rejection
Bodies == { "data", "data+action", "null", "reject" }

\* the texts the widget shows on its own
ExpiredText == "session expired"
SorryText == "sorry"
UnableText == "unable to connect"

\* addMessage(text, type)
addMessage(w, text, type) ==
    [w EXCEPT !.messages = Append(@, [type |-> type, text |-> text])]

\* showTyping()
showTyping(w) ==
    [w EXCEPT !.isTyping = TRUE, !.indicators = @ + 1, !.disabled = TRUE]

\* hideTyping()
hideTyping(w) ==
    [w EXCEPT !.isTyping = FALSE, !.indicators = IF @ > 0 THEN @ - 1 ELSE 0,
              !.disabled = FALSE]

\* the catch of sendMessage
Caught(w, k) ==
    [addMessage(hideTyping(w), UnableText, "bot") EXCEPT !.send[k].pc = "done"]

\* a mutant of Debounced: the call is dropped only within half the delay
DebouncedHalf(w) == 2 * (w.clock - w.lastSendTime) < DEBOUNCE_DELAY

\* now - lastSendTime < DEBOUNCE_DELAY
Debounced(w) == w.clock - w.lastSendTime < DEBOUNCE_DELAY

\* a mutant of Accepted: the user entry enters the history when it is sent
AcceptedRemembered(w, k, message, token) ==
    [showTyping(addMessage([w EXCEPT !.lastSendTime = w.clock, !.welcome = FALSE,
                                     !.chatHistory = Append(@, [role |-> "user",
                                                                content |-> message])],
                           message, "user"))
       EXCEPT !.send[k] = [pc |-> "fetch", message |-> message,
                           history |-> Slice(w.chatHistory, 10),
                           token |-> token, status |-> 0]]

\* sendMessage past its early returns, up to the await of fetch
Accepted(w, k, message, token) ==
    [showTyping(addMessage([w EXCEPT !.lastSendTime = w.clock, !.welcome = FALSE],
                           message, "user"))
       EXCEPT !.send[k] = [pc |-> "fetch", message |-> message,
                           history |-> Slice(w.chatHistory, 10),
                           token |-> token, status |-> 0]]

\* window.sendMessage is called with text in the input and token in storage
SendMessage(text, token) ==
    /\ LET message == Trim(text)
       IN  IF message = << >> \/ widget.isTyping \/ Debounced(widget)
           THEN /\ widget.dropped < MaxDrops
                /\ widget' = [widget EXCEPT !.dropped = @ + 1,
                                 !.dropWhy = IF message = << >> THEN "empty"
                                             ELSE IF widget.isTyping THEN "typing"
                                             ELSE "debounce"]
           ELSE \E k \in Sends :
                   /\ widget.send[k].pc = "new"
                   /\ \A j \in 1..(k - 1) : widget.send[j].pc # "new"
                   /\ widget' = Accepted(widget, k, message, token)
    /\ UNCHANGED << serverVars, execVars, toolVars, clearRes, report >>

\* the fetch of send k settles
FetchSettles(k, outcome) ==
    /\ widget.send[k].pc = "fetch"
    /\ IF outcome = "reject"
       THEN widget' = Caught(widget, k)
       ELSE LET w == hideTyping(widget)
            IN  IF ~widget.send[k].token \/ outcome \in { "401", "403" }
                THEN widget' = [addMessage(w, ExpiredText, "bot") EXCEPT
                                   !.send[k].pc = "done", !.send[k].status = outcome]
                ELSE widget' = [w EXCEPT !.send[k].pc = "json", !.send[k].status = outcome]
    /\ UNCHANGED << serverVars, execVars, toolVars, clearRes, report >>

\* response.json() of send k settles
JsonSettles(k, body) ==
    /\ widget.send[k].pc = "json"
    /\ IF body \in { "reject", "null" }
       THEN /\ widget' = Caught(widget, k)
            /\ UNCHANGED execVars
       ELSE IF widget.send[k].status = "200"
       THEN /\ widget' =
                 [addMessage(widget, "response", "bot") EXCEPT
                     !.chatHistory =
                         @ \o << [role |-> "user", content |-> widget.send[k].message],
                                 [role |-> "assistant", content |-> << "response" >>] >>,
                     !.send[k].pc = "done"]
            /\ IF body = "data+action"
               THEN LET out == executeChatbotAction("navigate", "employee-dashboard", TRUE)
                    IN  /\ execCalls' = execCalls + 1
                        /\ execLast' = [action |-> "navigate", arg |-> "employee-dashboard",
                                        result |-> IF out.result THEN "true" ELSE "false"]
                        /\ timers' = timers \cup out.timers
                        /\ ui' = ui \cup out.effects
               ELSE UNCHANGED execVars
       ELSE /\ widget' = [addMessage(widget, SorryText, "bot") EXCEPT !.send[k].pc = "done"]
            /\ UNCHANGED execVars
    /\ UNCHANGED << serverVars, toolVars, clearRes, report >>

\* time passes in the page
WidgetTick ==
    /\ widget.clock < StartTime + MaxClock * ClockStep
    /\ widget' = [widget EXCEPT !.clock = @ + ClockStep]
    /\ UNCHANGED << serverVars, execVars, toolVars, clearRes, report >>

NextWidget ==
    \/ \E text \in Inputs, token \in BOOLEAN : SendMessage(text, token)
    \/ \E k \in Sends, o \in FetchOutcomes : FetchSettles(k, o)
    \/ \E k \in Sends, b \in Bodies : JsonSettles(k, b)
    \/ WidgetTick

SpecWidget == Init /\ [][NextWidget]_vars

\* the sends whose fetch has not settled
AwaitingFetch == { k \in Sends : widget.send[k].pc = "fetch" }

\* C31: the widget has at most one chat request in flight: while the fetch
\* of a send has not settled isTyping is true and the send button disabled,
\* so that no second fetch is issued before it settles.
C31_OneRequestInFlight ==
    /\ Cardinality(AwaitingFetch) <= 1
    /\ AwaitingFetch # {} => widget.isTyping /\ widget.disabled

\* C32: chatHistory changes only in the step in which a send answered with
\* an ok status gets its body, and then by one user entry holding the
\* message of that send followed by one assistant entry; so it always has
\* even length with user and assistant entries in turn, and a send that
\* failed, was refused or was dropped leaves it as it was.
C32_HistoryPairs ==
    [][ /\ widget'.chatHistory # widget.chatHistory =>
              \E k \in Sends :
                  /\ widget.send[k].pc = "json" /\ widget'.send[k].pc = "done"
                  /\ widget.send[k].status = "200"
                  /\ Len(widget'.chatHistory) = Len(widget.chatHistory) + 2
                  /\ SubSeq(widget'.chatHistory, 1, Len(widget.chatHistory)) = widget.chatHistory
                  /\ widget'.chatHistory[Len(widget.chatHistory) + 1] =
                        [role |-> "user", content |-> widget.send[k].message]
                  /\ widget'.chatHistory[Len(widget.chatHistory) + 2].role = "assistant"
        /\ Len(widget'.chatHistory) % 2 = 0
        /\ \A i \in 1..Len(widget'.chatHistory) :
              widget'.chatHistory[i].role = IF i % 2 = 1 THEN "user" ELSE "assistant" ]_vars

\* two sends were answered, one failed and a call was dropped: the history
\* holds the two exchanges
C32_Witness ==
    /\ Len(widget.chatHistory) = 4
    /\ widget.dropped > 0
    /\ \E k \in Sends : widget.send[k].pc = "done" /\ widget.send[k].status # "200"

\* C33: a sendMessage call made with an input that trims to nothing, or
\* less than 300 ms after the last accepted send, is dropped: no request is
\* sent and lastSendTime, chatHistory, isTyping, the button and the messages
\* shown stay as they were; a call is accepted only with a message, and 300
\* ms or more after the one accepted before it.
C33_DroppedNoEffect ==
    [][ /\ widget'.dropped # widget.dropped =>
              /\ widget'.send = widget.send
              /\ widget'.lastSendTime = widget.lastSendTime
              /\ widget'.chatHistory = widget.chatHistory
              /\ widget'.isTyping = widget.isTyping
              /\ widget'.disabled = widget.disabled
              /\ widget'.indicators = widget.indicators
              /\ widget'.welcome = widget.welcome
              /\ widget'.messages = widget.messages
              /\ UNCHANGED execVars
        /\ \A k \in Sends :
              (widget.send[k].pc = "new" /\ widget'.send[k].pc # "new") =>
                  /\ widget'.send[k].message # << >>
                  /\ ~Includes(widget'.send[k].message, "sp")
                  /\ widget.clock - widget.lastSendTime >= 300
                  /\ widget'.lastSendTime = widget.clock ]_vars

\* after an accepted send was answered, a call with a message made 150 ms
\* after that send was dropped for being too early
C33_Witness ==
    /\ widget.dropWhy = "debounce"
    /\ widget.clock - widget.lastSendTime = 150
    /\ ~widget.isTyping
    /\ Len(widget.messages) = 2

\* C34: executeChatbotAction returns a boolean for every actionData, a
\* handler that raises included, and it returns false, with no navigation
\* or click scheduled and no scroll or modal effect, whenever the action
\* kind is none of navigate, click, scroll and open_modal or the field the
\* handler reads is absent.
C34_ExecutorTotal ==
    [][ execCalls' # execCalls =>
          /\ execLast'.result \in { "true", "false" }
          /\ (execLast'.action \notin { "navigate", "click", "scroll", "open_modal" }
              \/ execLast'.arg \in { Undefined, "" }) =>
                /\ execLast'.result = "false"
                /\ timers' = timers
                /\ ui' = ui ]_vars

\* a scroll whose registry value made querySelector raise returned false,
\* with the error toast of the catch
C34_Witness ==
    /\ execLast.action = "scroll" /\ execLast.arg = "constructor"
    /\ execLast.result = "false"
    /\ [kind |-> "toast", arg |-> "error"] \in ui

\* C35: every target, element and modal name the system prompt advertises
\* is an enumerated key of the registry table of its action kind: the
\* executor, handed an advertised action, finds its key in the registry and
\* does not take it for unknown.
C35_AdvertisedInRegistry ==
    (execLast.action \in ActionKinds /\ execLast.arg \in Advertised(execLast.action)) =>
        /\ execLast.arg \in OwnKeys(execLast.action)
        /\ RegistryLookup(execLast.action, execLast.arg) # Undefined

\* ----------------------------------------- getManagerMissingTimesheets
\* A Date is counted in half days: 2 * day + late, late being 0 at midnight
\* and 1 later in the day; day 0 is a Sunday.
FirstDay == 35
Todays == FirstDay..(FirstDay + 6)
Periods == { "today", "week", "month", "year" }

Midnight(day) == 2 * day
DayOf(t) == t \div 2
\* Date.prototype.getDay
getDay(t) == DayOf(t) % 7
\* d.setDate(d.getDate() + n)
AddDays(t, n) == t + 2 * n

\* the switch on period: startDate, and now as the switch leaves it
\* (setDate changes the Date it is called on)
PeriodWindow(period, now0, dayOfMonth) ==
    CASE period = "today" -> [startDate |-> Midnight(DayOf(now0)), now |-> now0]
      [] period = "month" ->
             [startDate |-> Midnight(DayOf(now0) - (dayOfMonth - 1)), now |-> now0]
      [] OTHER -> [startDate |-> AddDays(now0, -7), now |-> AddDays(now0, -7)]

\* the loop over d from startDate while d <= now, one day at a time
RECURSIVE CountWorkingDays(_, _)
CountWorkingDays(d, now1) ==
    IF d > now1 THEN 0
    ELSE (IF getDay(d) # 0 /\ getDay(d) # 6 THEN 1 ELSE 0)
         + CountWorkingDays(AddDays(d, 1), now1)

\* getManagerMissingTimesheets for one employee of the manager who has
\* submitted that many timesheets since startDate
GetManagerMissingTimesheets(userRole, period, today, late, dayOfMonth, submittedDays) ==
    /\ IF userRole \notin { "manager", "admin" }
       THEN report' = [NoReport EXCEPT !.kind = "advisory", !.period = period]
       ELSE LET win == PeriodWindow(period, Midnight(today) + late, dayOfMonth)
                expectedDays == CountWorkingDays(win.startDate, win.now)
                missingDays == expectedDays - submittedDays
            IN  report' = [kind |-> "data", period |-> period, today |-> today,
                           late |-> late, dayOfMonth |-> dayOfMonth,
                           submittedDays |-> submittedDays,
                           expectedDays |-> expectedDays,
                           missingDays |-> missingDays, listed |-> missingDays > 0]
    /\ UNCHANGED << serverVars, execVars, toolVars, clearRes, widget >>

NextReport ==
    \E ro \in Roles, p \in Periods, t \in Todays, l \in 0..1,
       dom \in 1..MaxDayOfMonth, n \in 0..MaxSubmitted :
        GetManagerMissingTimesheets(ro, p, t, l, dom, n)

SpecReport == Init /\ [][NextReport]_vars

\* the first day of the period as the claim has it
PeriodStartDay(period, today, dayOfMonth) ==
    CASE period = "today" -> today
      [] period = "month" -> today - (dayOfMonth - 1)
      [] OTHER -> today - 7

\* the Monday-to-Friday days from day a through day b
Weekdays(a, b) == Cardinality({ x \in a..b : x % 7 \notin { 0, 6 } })

\* C36: the expected-working-days count of getManagerMissingTimesheets is
\* the number of Monday-to-Friday days from the start date of the period
\* through the current day, and missingDays is that count less the
\* submitted days.
C36_ExpectedWorkingDays ==
    report.kind = "data" =>
        /\ report.expectedDays =
              Weekdays(PeriodStartDay(report.period, report.today, report.dayOfMonth),
                       report.today)
        /\ report.missingDays = report.expectedDays - report.submittedDays

\* ------------------------------------------------------------- liveness
\* What the server itself guarantees to happen: the clock advances and a
\* dispatched tool comes back.  Whether and when the completion backend
\* answers a fetch is up to the backend: the fetch calls of processRequest
\* are given no signal and no timeout, so no step of the route is enabled by
\* the passing of time.
SpecLive ==
    /\ Init
    /\ [][Next]_vars
    /\ WF_vars(Tick)
    /\ \A p \in Requests : WF_vars(\E t \in CoreToolOutcomes : ToolReturn(p, t))

\* C14: every backend call is bounded in time: a chat request that awaits
\* the completion backend, as the producer of the initial or of the
\* summarization call or as a waiter attached to it, is eventually
\* answered even when the backend never answers.
C14_BoundedBackendCall ==
    \A r \in Requests :
        (req[r].pc \in {"fetch1", "fetch2", "waiting"}) ~> (req[r].pc = "done")
====
